---- MODULE Spec2Model ----
(***************************************************************************)
(* A model of utilities/something-to-xes.py: the conversion of a flat      *)
(* stream of events into an XES document.                                  *)
(*                                                                         *)
(* Representation.  A Python string is a finite sequence of symbols; a     *)
(* symbol is written as a TLA+ string and is indivisible ("concept", ":",  *)
(* "7", ...).  The empty Python string is << >>.  Python's None, where a   *)
(* string may also stand, is the reserved one-symbol sequence PyNone.  A   *)
(* Python dict that is iterated is a sequence of <<key, value>> pairs with *)
(* distinct keys, in the dict's iteration order.  A call that may raise    *)
(* returns a record [exc, val]: exc = "" when it returned val.             *)
(***************************************************************************)
EXTENDS Integers, Sequences, FiniteSets, TLC

\* ------------------------------------------------------------- bounds
\* the entries of the name pool and of the place pool that are modelled
MaxNames == 2
MaxPlaces == 1
MaxDecls == 2
MaxRecords == 3

\* ------------------------------------------------------------- Python values
PyNone == <<"<None>">>

Ok(v) == [exc |-> "", val |-> v]
Raise(e) == [exc |-> e, val |-> << >>]
\* r's exception if it raised, F of its value otherwise
Bind(r, F(_)) == IF r.exc # "" THEN Raise(r.exc) ELSE F(r.val)

Range(s) == {s[i] : i \in 1..Len(s)}

RECURSIVE Concat(_)
Concat(ss) == IF ss = << >> THEN << >> ELSE Head(ss) \o Concat(Tail(ss))

\* dict helpers: a dict is a sequence of <<key, value>> pairs, keys distinct
Keys(d) == {d[i][1] : i \in 1..Len(d)}
Get(d, k) == d[CHOOSE i \in 1..Len(d) : d[i][1] = k][2]
\* d[k] = v: an existing key keeps its place, a new key is added
Put(d, k, v) ==
  IF k \in Keys(d)
    THEN [i \in 1..Len(d) |-> IF d[i][1] = k THEN <<k, v>> ELSE d[i]]
    ELSE Append(d, <<k, v>>)

Perms(S) == {p \in [1..Cardinality(S) -> S] : Range(p) = S}

\* ------------------------------------------------------------- names
\* n.split(":", 2): at most two splits, so at most three parts
RECURSIVE Split(_, _)
Split(n, maxsplit) ==
  IF maxsplit = 0 \/ ~(\E i \in 1..Len(n) : n[i] = ":")
    THEN <<n>>
    ELSE LET i == CHOOSE j \in 1..Len(n) :
                    n[j] = ":" /\ \A k \in 1..(j - 1) : n[k] # ":"
         IN <<SubSeq(n, 1, i - 1)>> \o Split(SubSeq(n, i + 1, Len(n)), maxsplit - 1)

raw_name_to_name(n) ==
  LET parts == Split(n, 2)
  IN IF Len(parts) = 1 THEN <<PyNone, parts[1]>> ELSE <<parts[1], parts[2]>>

\* `if p:` is false for None and for the empty string
Truthy(s) == s # PyNone /\ s # << >>

name_to_raw_name(n) ==
  IF Truthy(n[1]) THEN n[1] \o <<":">> \o n[2] ELSE n[2]

\* ------------------------------------------------------------- registries
extensions0 ==
  [p \in {<<"concept">>, <<"lifecycle">>, <<"org">>, <<"time">>,
          <<"semantic">>, <<"id">>, <<"cost">>} |->
     CASE p = <<"concept">> -> << <<"Concept">>, <<"http://www.xes-standard.org/concept.xesext">> >>
       [] p = <<"lifecycle">> -> << <<"Lifecycle">>, <<"http://www.xes-standard.org/lifecycle.xesext">> >>
       [] p = <<"org">> -> << <<"Organizational">>, <<"http://www.xes-standard.org/org.xesext">> >>
       [] p = <<"time">> -> << <<"Time">>, <<"http://www.xes-standard.org/time.xesext">> >>
       [] p = <<"semantic">> -> << <<"Semantic">>, <<"http://www.xes-standard.org/semantic.xesext">> >>
       [] p = <<"id">> -> << <<"ID">>, <<"http://www.xes-standard.org/identity.xesext">> >>
       [] p = <<"cost">> -> << <<"Cost">>, <<"http://www.xes-standard.org/cost.xesext">> >>]

elementary_attribute_types ==
  {"string", "date", "int", "float", "boolean", "id", "_uuid"}

N(p, r) == << <<p>>, <<r>> >>

typed_attributes0 ==
  [n \in {N("concept", "name"), N("concept", "event"),
          N("lifecycle", "model"), N("lifecycle", "transition"),
          N("org", "resource"), N("org", "role"), N("org", "group"),
          N("time", "timestamp"), N("semantic", "modelReference"),
          N("id", "id"), N("cost", "total"), N("cost", "currency")} |->
     CASE n = N("time", "timestamp") -> "date"
       [] n = N("id", "id") -> "_uuid"
       [] n = N("cost", "total") -> "float"
       [] OTHER -> "string"]

\* a registration without the assert of line 561: the last declaration wins
RegisterExtensionOverwriting(exts, d) ==
  Ok([p \in DOMAIN exts \cup {d[1]} |-> IF p = d[1] THEN <<d[2], d[3]>> ELSE exts[p]])

\* one iteration of the loop over args.xes_extensions: d = <<prefix, name, uri>>
RegisterExtension(exts, d) ==
  IF d[1] \in DOMAIN exts /\ exts[d[1]] # <<d[2], d[3]>>
    THEN Raise("AssertionError")
    ELSE IF d[1] \in DOMAIN exts
           THEN Ok(exts)
           ELSE Ok([p \in DOMAIN exts \cup {d[1]} |->
                      IF p = d[1] THEN <<d[2], d[3]>> ELSE exts[p]])

\* one iteration of the loop over args.types: d = <<raw name, type>>
RegisterType(types, d) ==
  LET name == raw_name_to_name(d[1])
  IN IF d[2] \notin elementary_attribute_types
       THEN Raise("AssertionError")
       ELSE IF name \in DOMAIN types /\ types[name] # d[2]
              THEN Raise("AssertionError")
              ELSE IF name \in DOMAIN types
                     THEN Ok(types)
                     ELSE Ok([n \in DOMAIN types \cup {name} |->
                                IF n = name THEN d[2] ELSE types[n]])

\* ------------------------------------------------------------- templates
\* A template is a sequence of tokens: Lit(s) is literal text, Ref(f) is the
\* conversion %(f)s.  An event e is a dict from field name to string or None.
Lit(s) == [k |-> "lit", s |-> s]
Ref(f) == [k |-> "ref", s |-> f]

\* str(v) as %s renders it
PyStr(v) == IF v = PyNone THEN <<"None">> ELSE v

\* t % e
Format(t, e) ==
  IF \E i \in 1..Len(t) : t[i].k = "ref" /\ t[i].s \notin Keys(e)
    THEN Raise("KeyError")
    ELSE Ok(Concat([i \in 1..Len(t) |->
                      IF t[i].k = "ref" THEN PyStr(Get(e, t[i].s)) ELSE t[i].s]))

\* ------------------------------------------------------------- characters
Digits == <<"0", "1", "2", "3", "4", "5", "6", "7", "8", "9">>
IsDigit(c) == c \in Range(Digits)
DigitVal(c) == (CHOOSE i \in 1..10 : Digits[i] = c) - 1

HexLower == <<"a", "b", "c", "d", "e", "f">>
HexUpper == <<"A", "B", "C", "D", "E", "F">>
IsHex(c) == IsDigit(c) \/ c \in Range(HexLower) \/ c \in Range(HexUpper)

Upper == <<"A", "B", "C", "D", "E", "F", "R", "S", "T", "U", "Y">>
LowerOf == <<"a", "b", "c", "d", "e", "f", "r", "s", "t", "u", "y">>
LowerChar(c) ==
  IF c \in Range(Upper) THEN LowerOf[CHOOSE i \in 1..Len(Upper) : Upper[i] = c] ELSE c
Lower(s) == [i \in 1..Len(s) |-> LowerChar(s[i])]

RECURSIVE LStrip(_, _)
LStrip(s, cs) == IF s # << >> /\ Head(s) \in cs THEN LStrip(Tail(s), cs) ELSE s
RECURSIVE RStrip(_, _)
RStrip(s, cs) ==
  IF s # << >> /\ s[Len(s)] \in cs THEN RStrip(SubSeq(s, 1, Len(s) - 1), cs) ELSE s
Strip(s, cs) == RStrip(LStrip(s, cs), cs)

RECURSIVE Remove(_, _)
Remove(s, c) ==
  IF s = << >> THEN << >>
  ELSE IF Head(s) = c THEN Remove(Tail(s), c) ELSE <<Head(s)>> \o Remove(Tail(s), c)

AllDigits(s) == s # << >> /\ \A i \in 1..Len(s) : IsDigit(s[i])

RECURSIVE DigitsVal(_)
DigitsVal(s) ==
  IF s = << >> THEN 0 ELSE DigitsVal(SubSeq(s, 1, Len(s) - 1)) * 10 + DigitVal(s[Len(s)])

RECURSIVE NatToStr(_)
NatToStr(n) ==
  IF n < 10 THEN <<Digits[n + 1]>> ELSE NatToStr(n \div 10) \o <<Digits[(n % 10) + 1]>>

\* "%0<w>d" % n, for n >= 0
ZeroPad(n, w) ==
  LET s == NatToStr(n)
  IN IF Len(s) >= w THEN s ELSE [i \in 1..(w - Len(s)) |-> "0"] \o s

\* ------------------------------------------------------------- int, float
\* int(v): surrounding whitespace, an optional sign, at least one digit
PyInt(v) ==
  LET s == Strip(v, {" ", "\t", "\n"})
      signed == s # << >> /\ Head(s) \in {"+", "-"}
      body == IF signed THEN Tail(s) ELSE s
  IN IF AllDigits(body)
       THEN Ok(IF signed /\ Head(s) = "-" THEN 0 - DigitsVal(body) ELSE DigitsVal(body))
       ELSE Raise("ValueError")

\* str(i)
IntToStr(i) == IF i < 0 THEN <<"-">> \o NatToStr(0 - i) ELSE NatToStr(i)

\* float(v), for plain decimal literals: surrounding whitespace, an optional
\* sign, digits with at most one point and at least one digit.  The value is
\* kept as [neg, int, frac]: the integer part and the fraction digits without
\* trailing zeros.  (Exponents, inf and nan are outside the model's inputs.)
PyFloat(v) ==
  LET s == Strip(v, {" ", "\t", "\n"})
      signed == s # << >> /\ Head(s) \in {"+", "-"}
      body == IF signed THEN Tail(s) ELSE s
      points == {i \in 1..Len(body) : body[i] = "."}
      ip == IF points = {} THEN body ELSE SubSeq(body, 1, (CHOOSE i \in points : TRUE) - 1)
      fp == IF points = {} THEN << >>
            ELSE SubSeq(body, (CHOOSE i \in points : TRUE) + 1, Len(body))
      wellformed == /\ Cardinality(points) <= 1
                    /\ \A i \in 1..Len(ip) : IsDigit(ip[i])
                    /\ \A i \in 1..Len(fp) : IsDigit(fp[i])
                    /\ Len(ip) + Len(fp) >= 1
  IN IF wellformed
       THEN Ok([neg |-> signed /\ Head(s) = "-",
                int |-> DigitsVal(ip),
                frac |-> RStrip(fp, {"0"})])
       ELSE Raise("ValueError")

\* str(f) for such a value
FloatToStr(f) ==
  (IF f.neg THEN <<"-">> ELSE << >>) \o NatToStr(f.int) \o <<".">> \o
  (IF f.frac = << >> THEN <<"0">> ELSE f.frac)

\* ------------------------------------------------------------- dates
\* A datetime is [year, month, day, hour, minute, second, microsecond, tz];
\* tz is << >> for a naive value and <<m>> for an offset of m minutes.
DateTime(y, mo, d, h, mi, sec, us, tz) ==
  [year |-> y, month |-> mo, day |-> d, hour |-> h, minute |-> mi,
   second |-> sec, microsecond |-> us, tz |-> tz]

\* ts.utcoffset(): None (here << >>) or a timedelta (here <<minutes>>)
utcoffset(ts) == ts.tz

\* dateutil.parser.parse(v), for the ISO 8601 shapes
\*   YYYY-MM-DD [ T HH:MM:SS [ . f{1,6} ] ] [ Z | (+|-)HH:MM ]
\* anything else is refused with ValueError.
DateOk(date) ==
  /\ AllDigits(SubSeq(date, 1, 4)) /\ date[5] = "-"
  /\ AllDigits(SubSeq(date, 6, 7)) /\ date[8] = "-"
  /\ AllDigits(SubSeq(date, 9, 10))

TimeOk(time) ==
  \/ time = << >>
  \/ /\ Len(time) >= 9 /\ time[1] = "T"
     /\ AllDigits(SubSeq(time, 2, 3)) /\ time[4] = ":"
     /\ AllDigits(SubSeq(time, 5, 6)) /\ time[7] = ":"
     /\ AllDigits(SubSeq(time, 8, 9))
     /\ \/ Len(time) = 9
        \/ /\ time[10] = "." /\ Len(time) \in 11..16
           /\ AllDigits(SubSeq(time, 11, Len(time)))

ZoneOk(zone) ==
  \/ zone = << >>
  \/ zone = <<"Z">>
  \/ /\ Len(zone) = 6 /\ zone[1] \in {"+", "-"}
     /\ AllDigits(SubSeq(zone, 2, 3)) /\ zone[4] = ":"
     /\ AllDigits(SubSeq(zone, 5, 6))

Field(s, m, n) == IF s = << >> THEN 0 ELSE DigitsVal(SubSeq(s, m, n))

Micros(time) ==
  IF Len(time) <= 10 THEN 0
  ELSE DigitsVal(SubSeq(time, 11, Len(time)) \o [i \in 1..(16 - Len(time)) |-> "0"])

ZoneMinutes(zone) ==
  IF zone = << >> THEN << >>
  ELSE IF zone = <<"Z">> THEN <<0>>
  ELSE IF zone[1] = "-" THEN <<0 - (Field(zone, 2, 3) * 60 + Field(zone, 5, 6))>>
  ELSE <<Field(zone, 2, 3) * 60 + Field(zone, 5, 6)>>

CheckedDateTime(y, mo, d, h, mi, sec, us, tz) ==
  IF y >= 1 /\ mo \in 1..12 /\ d \in 1..31 /\ h <= 23 /\ mi <= 59 /\ sec <= 59
    THEN Ok(DateTime(y, mo, d, h, mi, sec, us, tz))
    ELSE Raise("ValueError")

ParseParts(date, time, zone) ==
  IF DateOk(date) /\ TimeOk(time) /\ ZoneOk(zone)
    THEN CheckedDateTime(Field(date, 1, 4), Field(date, 6, 7), Field(date, 9, 10),
                         Field(time, 2, 3), Field(time, 5, 6), Field(time, 8, 9),
                         Micros(time), ZoneMinutes(zone))
    ELSE Raise("ValueError")

\* where the zone designator starts: past the date, the first of Z, + and -
ZoneStart(v) ==
  IF \E i \in 11..Len(v) : v[i] \in {"Z", "+", "-"}
    THEN CHOOSE i \in 11..Len(v) :
           v[i] \in {"Z", "+", "-"} /\ \A j \in 11..(i - 1) : v[j] \notin {"Z", "+", "-"}
    ELSE Len(v) + 1

ParseAt(v, zi) ==
  ParseParts(SubSeq(v, 1, 10), SubSeq(v, 11, zi - 1), SubSeq(v, zi, Len(v)))

DateutilParse(v) == IF Len(v) < 10 THEN Raise("ValueError") ELSE ParseAt(v, ZoneStart(v))

\* int(tz / 60): tz / 60 is a timedelta again, and int() of a timedelta is a
\* TypeError
IntOfTimedelta(td) == Raise("TypeError")

xesformatBase(ts) ==
  ZeroPad(ts.year, 4) \o <<"-">> \o ZeroPad(ts.month, 2) \o <<"-">> \o
  ZeroPad(ts.day, 2) \o <<"T">> \o ZeroPad(ts.hour, 2) \o <<":">> \o
  ZeroPad(ts.minute, 2) \o <<":">> \o ZeroPad(ts.second, 2) \o <<".">> \o
  ZeroPad(ts.microsecond \div 1000, 3)

\* lines 160-163: "%d:%d" after the base, with "+" unless hours is negative
WithOffset(base, hours, minutes) ==
  IF hours < 0
    THEN Ok(base \o IntToStr(hours) \o <<":">> \o IntToStr(minutes))
    ELSE Ok(base \o <<"+">> \o IntToStr(hours) \o <<":">> \o IntToStr(minutes))

\* `if tz:` is false for None and for timedelta(0).  The tuple of line 159 is
\* built before either return of lines 161 and 163.
FormatZone(base, tz) ==
  IF tz # << >> /\ tz[1] # 0
    THEN Bind(IntOfTimedelta(tz), LAMBDA hours : WithOffset(base, hours, tz[1] % 60))
    ELSE Ok(base \o <<"Z">>)

xesformat(ts) == FormatZone(xesformatBase(ts), utcoffset(ts))

\* ------------------------------------------------------------- UUID
UuidHexLen == 32

CheckedHex(hex) ==
  IF Len(hex) = UuidHexLen /\ \A i \in 1..Len(hex) : IsHex(hex[i])
    THEN Ok(Lower(hex))
    ELSE Raise("ValueError")

\* UUID(v): drop "urn:" and "uuid:", strip braces, drop hyphens; what is left
\* must be 32 hexadecimal digits
UUID(v) == CheckedHex(Remove(Strip(Remove(Remove(v, "urn:"), "uuid:"), {"{", "}"}), "-"))

\* str(u): 8-4-4-4-12
UuidToStr(u) ==
  SubSeq(u, 1, 8) \o <<"-">> \o SubSeq(u, 9, 12) \o <<"-">> \o
  SubSeq(u, 13, 16) \o <<"-">> \o SubSeq(u, 17, 20) \o <<"-">> \o SubSeq(u, 21, 32)

\* ------------------------------------------------------------- elements
Element(tag, key, value) == [tag |-> tag, key |-> key, value |-> value]

string_element(key, v) ==
  Ok(Element("string", key, IF Truthy(v) THEN v ELSE << >>))

date_element(key, v) ==
  Bind(Bind(DateutilParse(v), xesformat), LAMBDA s : Ok(Element("date", key, s)))

int_element(key, v) ==
  Bind(PyInt(v), LAMBDA i : Ok(Element("int", key, IntToStr(i))))

float_element(key, v) ==
  Bind(PyFloat(v), LAMBDA f : Ok(Element("float", key, FloatToStr(f))))

IsTrue(w) == w = <<"t", "r", "u", "e">> \/ w = <<"1">> \/ w = <<"y", "e", "s">>

boolean_element(key, v) ==
  Ok(Element("boolean", key,
             IF IsTrue(Lower(Strip(v, {" ", "\t", "\n"}))) THEN <<"true">> ELSE <<"false">>))

id_element(key, v) == Ok(Element("id", key, v))

uuid_element(key, v) ==
  Bind(UUID(v), LAMBDA u : id_element(key, UuidToStr(u)))

\* elementary_attribute_types[element_type](key, value)
Encode(element_type, key, value) ==
  CASE element_type = "string" -> string_element(key, value)
    [] element_type = "date" -> date_element(key, value)
    [] element_type = "int" -> int_element(key, value)
    [] element_type = "float" -> float_element(key, value)
    [] element_type = "boolean" -> boolean_element(key, value)
    [] element_type = "id" -> id_element(key, value)
    [] element_type = "_uuid" -> uuid_element(key, value)

TypeOf(types, name) == IF name \in DOMAIN types THEN types[name] ELSE "string"

make_element(types, name, value) ==
  Encode(TypeOf(types, name), name_to_raw_name(name), value)

\* one item of mappings.items() in lines 273-280: the element it appends, or
\* the exception
Mapped(types, d, item) ==
  Bind(Format(item[2], d), LAMBDA actual : make_element(types, item[1], actual))

\* a loop body without the except ValueError of line 279
CollectValueErrorFatal(made, rest) ==
  IF made.exc = "KeyError" THEN rest
  ELSE IF made.exc # "" THEN Raise(made.exc)
  ELSE IF rest.exc # "" THEN rest
  ELSE Ok(<<made.val>> \o rest.val)

\* KeyError and ValueError are passed over; any other exception leaves the loop
Collect(made, rest) ==
  IF made.exc \in {"KeyError", "ValueError"} THEN rest
  ELSE IF made.exc # "" THEN Raise(made.exc)
  ELSE IF rest.exc # "" THEN rest
  ELSE Ok(<<made.val>> \o rest.val)

\* the children that the loop over mappings.items() appends, from item i on
RECURSIVE MappedChildren(_, _, _, _)
MappedChildren(types, d, mappings, i) ==
  IF i > Len(mappings) THEN Ok(<< >>)
  ELSE Collect(Mapped(types, d, mappings[i]), MappedChildren(types, d, mappings, i + 1))

Comment(text) == Element("#comment", << >>, text)

\* lines 281-284
RawChildren(d, preserve) ==
  IF preserve
    THEN <<Comment(<<" Raw event attributes follow: ">>)>> \o
         [i \in 1..Len(d) |-> string_element(d[i][1], d[i][2]).val]
    ELSE << >>

dict_to_element(types, d, mappings, preserve) ==
  Bind(MappedChildren(types, d, mappings, 1),
       LAMBDA mapped : Ok([tag |-> "event", children |-> mapped \o RawChildren(d, preserve)]))

\* ------------------------------------------------------------- header
get_extension_element(exts, prefix) ==
  IF prefix \notin DOMAIN exts THEN Raise("AssertionError")
  ELSE Ok([tag |-> "extension", name |-> exts[prefix][1], prefix |-> prefix,
           uri |-> exts[prefix][2]])

\* an exception leaves the loop
Cons(el, rest) ==
  IF el.exc # "" THEN el
  ELSE IF rest.exc # "" THEN rest
  ELSE Ok(<<el.val>> \o rest.val)

\* a header loop that does not consult used_prefixes
RECURSIVE ExtensionElementsRepeated(_, _, _, _)
ExtensionElementsRepeated(exts, keys, i, used) ==
  IF i > Len(keys) THEN Ok(<< >>)
  ELSE IF ~Truthy(keys[i][1])
    THEN ExtensionElementsRepeated(exts, keys, i + 1, used)
  ELSE Cons(get_extension_element(exts, keys[i][1]),
            ExtensionElementsRepeated(exts, keys, i + 1, used))

\* lines 583-589, over the keys from position i on; used is used_prefixes
RECURSIVE ExtensionElements(_, _, _, _)
ExtensionElements(exts, keys, i, used) ==
  IF i > Len(keys) THEN Ok(<< >>)
  ELSE IF ~Truthy(keys[i][1]) \/ keys[i][1] \in used
    THEN ExtensionElements(exts, keys, i + 1, used)
  ELSE Cons(get_extension_element(exts, keys[i][1]),
            ExtensionElements(exts, keys, i + 1, used \cup {keys[i][1]}))

\* ------------------------------------------------------------- pseudonyms
\* the lists, which the pools are made of, by their first entries
first_names == <<"Anne", "Kirsten">>
last_names == <<"Nielsen", "Jensen", "Hansen">>
places == SubSeq(<< <<"København">>, <<"Aarhus">>, <<"Aalborg">>, <<"Odense">> >>, 1, MaxPlaces)

\* [f + u" Kim " + l for f in first_names for l in last_names]
all_names ==
  SubSeq(Concat([i \in 1..Len(first_names) |->
                   [j \in 1..Len(last_names) |->
                      <<first_names[i], " Kim ", last_names[j]>>]]),
         1, MaxNames)

\* rigged_shuffle(l): some permutation of l, the same one in every run of a
\* build; which one is the generator's business
Shuffles(l) == {[i \in 1..Len(l) |-> l[p[i]]] : p \in Perms(1..Len(l))}

\* the k-th value of _yield_pseudorandom_uuid(), k = 1, 2, ...
PseudorandomUuid(k) == <<"uuid#">> \o NatToStr(k)

Kinds == {"name", "place", "uuid"}

\* an iterator that starts over at the end of its list
NextFromPoolCycling(pools, kind) ==
  IF kind = "uuid" THEN Ok(PseudorandomUuid(pools[kind].used + 1))
  ELSE IF pools[kind].items = << >> THEN Raise("StopIteration")
  ELSE Ok(pools[kind].items[(pools[kind].used % Len(pools[kind].items)) + 1])

\* next(pseudo_pools[kind]["iter"]); pools[kind] is [items, used]: the
\* shuffled list (unused for uuid) and how many values the iterator has given
NextFromPool(pools, kind) ==
  IF kind = "uuid" THEN Ok(PseudorandomUuid(pools[kind].used + 1))
  ELSE IF pools[kind].used >= Len(pools[kind].items) THEN Raise("StopIteration")
  ELSE Ok(pools[kind].items[pools[kind].used + 1])

\* line 112 and its except clause
Memoise(pools, mappings, kind, n, nx) ==
  IF nx.exc # ""
    THEN [exc |-> "Exception", val |-> << >>, pools |-> pools, mappings |-> mappings]
    ELSE [exc |-> "", val |-> nx.val,
          pools |-> [pools EXCEPT ![kind].used = @ + 1],
          mappings |-> [mappings EXCEPT ![kind] =
                          [m \in DOMAIN @ \cup {n} |-> IF m = n THEN nx.val ELSE @[m]]]]

\* a pseudonymise without the test of line 110
pseudonymiseUnmemoised(pools, mappings, kind, n) ==
  Memoise(pools, mappings, kind, n, NextFromPool(pools, kind))

\* pseudonymise(kind, n): the result and the state it leaves
pseudonymise(pools, mappings, kind, n) ==
  IF n \notin DOMAIN mappings[kind]
    THEN Memoise(pools, mappings, kind, n, NextFromPool(pools, kind))
    ELSE [exc |-> "", val |-> mappings[kind][n], pools |-> pools, mappings |-> mappings]

\* ------------------------------------------------------------- configuration
\* lines 546-550: later pools win when an attribute is named twice
AttributesToPseudonymise(a) ==
  [f \in Range(a.pseudo_names) \cup Range(a.pseudo_places) \cup Range(a.pseudo_uuids) |->
     IF f \in Range(a.pseudo_uuids) THEN "uuid"
     ELSE IF f \in Range(a.pseudo_places) THEN "place" ELSE "name"]

\* lines 552-558: the dict that the loop over the (raw name, template) pairs
\* builds, in insertion order
RECURSIVE BuildMappings(_)
BuildMappings(attrs) ==
  IF attrs = << >> THEN << >>
  ELSE Put(BuildMappings(SubSeq(attrs, 1, Len(attrs) - 1)),
           raw_name_to_name(attrs[Len(attrs)][1]), attrs[Len(attrs)][2])

\* the orders in which a dict with these items may be iterated
Orders(d) == {[i \in 1..Len(d) |-> d[p[i]]] : p \in Perms(1..Len(d))}

\* trace_names built with append instead of insert(0, ...)
RECURSIVE TraceNamesDefaultFirst(_)
TraceNamesDefaultFirst(tmap) ==
  IF tmap = << >> THEN << << >> >>
  ELSE IF tmap[Len(tmap)][1] = N("concept", "name")
    THEN TraceNamesDefaultFirst(SubSeq(tmap, 1, Len(tmap) - 1)) \o <<tmap[Len(tmap)][2]>>
    ELSE TraceNamesDefaultFirst(SubSeq(tmap, 1, Len(tmap) - 1))

\* trace_names that starts from the empty list instead of [""]
RECURSIVE TraceNamesWithoutDefault(_)
TraceNamesWithoutDefault(tmap) ==
  IF tmap = << >> THEN << >>
  ELSE IF tmap[Len(tmap)][1] = N("concept", "name")
    THEN <<tmap[Len(tmap)][2]>> \o TraceNamesWithoutDefault(SubSeq(tmap, 1, Len(tmap) - 1))
    ELSE TraceNamesWithoutDefault(SubSeq(tmap, 1, Len(tmap) - 1))

\* lines 635-638
RECURSIVE TraceNames(_)
TraceNames(tmap) ==
  IF tmap = << >> THEN << << >> >>
  ELSE IF tmap[Len(tmap)][1] = N("concept", "name")
    THEN <<tmap[Len(tmap)][2]>> \o TraceNames(SubSeq(tmap, 1, Len(tmap) - 1))
    ELSE TraceNames(SubSeq(tmap, 1, Len(tmap) - 1))

\* ------------------------------------------------------------- pass one
\* lines 645-649, over e.items() from position i on
RECURSIVE PseudonymiseEvent(_, _, _, _, _)
Replaced(atp, e, i, r) ==
  IF r.exc # ""
    THEN [exc |-> r.exc, e |-> e, pools |-> r.pools, mappings |-> r.mappings]
    ELSE PseudonymiseEvent(r.pools, r.mappings, atp, [e EXCEPT ![i] = <<e[i][1], r.val>>], i + 1)

PseudonymiseEvent(pools, mappings, atp, e, i) ==
  IF i > Len(e) THEN [exc |-> "", e |-> e, pools |-> pools, mappings |-> mappings]
  ELSE IF e[i][1] \notin DOMAIN atp
    THEN PseudonymiseEvent(pools, mappings, atp, e, i + 1)
  ELSE Replaced(atp, e, i, pseudonymise(pools, mappings, atp[e[i][1]], e[i][2]))

\* lines 651-663: the first trace name that formats; KeyError when none does
RECURSIVE Route(_, _, _)
Route(trace_names, e, i) ==
  IF i > Len(trace_names) THEN Raise("KeyError")
  ELSE IF Format(trace_names[i], e).exc = "KeyError" THEN Route(trace_names, e, i + 1)
  ELSE Format(trace_names[i], e)

\* seq[:n]
Slice(seq, n) ==
  IF n >= 0 THEN SubSeq(seq, 1, IF n < Len(seq) THEN n ELSE Len(seq))
  ELSE SubSeq(seq, 1, IF Len(seq) + n > 0 THEN Len(seq) + n ELSE 0)

\* lines 674-677; max_traces is << >> for None and <<n>> for the integer n
Prune(trs, order, max_traces) ==
  IF max_traces # << >> /\ max_traces[1] # 0
    THEN [ti \in Range(Slice(order, max_traces[1])) |-> trs[ti]]
    ELSE trs

\* ------------------------------------------------------------- pass two
TA(exc, attr, val) == [exc |-> exc, attr |-> attr, val |-> val]

\* lines 687-697 for one event: trace_attributes after the rules from j on
RECURSIVE TraceAttributes(_, _, _, _)
\* the body of the loop without the assert of line 693
AgreeUnchecked(tmap, j, event, trace_attributes, name, actual) ==
  IF actual.exc = "KeyError" THEN TraceAttributes(tmap, j + 1, event, trace_attributes)
  ELSE IF name \notin Keys(trace_attributes)
    THEN TraceAttributes(tmap, j + 1, event, Put(trace_attributes, name, actual.val))
  ELSE TraceAttributes(tmap, j + 1, event, trace_attributes)

\* lines 688-697: the first value is kept, a later one must equal it
Agree(tmap, j, event, trace_attributes, name, actual) ==
  IF actual.exc = "KeyError" THEN TraceAttributes(tmap, j + 1, event, trace_attributes)
  ELSE IF name \notin Keys(trace_attributes)
    THEN TraceAttributes(tmap, j + 1, event, Put(trace_attributes, name, actual.val))
  ELSE IF Get(trace_attributes, name) # actual.val
    THEN TA("AssertionError", name_to_raw_name(name), trace_attributes)
  ELSE TraceAttributes(tmap, j + 1, event, trace_attributes)

TraceAttributes(tmap, j, event, trace_attributes) ==
  IF j > Len(tmap) THEN TA("", << >>, trace_attributes)
  ELSE Agree(tmap, j, event, trace_attributes, tmap[j][1], Format(tmap[j][2], event))

TE(exc, attr, els, ta) == [exc |-> exc, attr |-> attr, els |-> els, trace_attributes |-> ta]

PrependEvent(event_el, rest) ==
  IF rest.exc # "" THEN rest ELSE [rest EXCEPT !.els = <<event_el>> \o @]

\* lines 684-698, over the events from position i on
RECURSIVE TraceEvents(_, _, _, _, _, _, _)
OneEvent(types, events, i, emap, tmap, preserve, trace_attributes, event_el, ta) ==
  IF event_el.exc # "" THEN TE(event_el.exc, << >>, << >>, trace_attributes)
  ELSE IF ta.exc # "" THEN TE(ta.exc, ta.attr, << >>, ta.val)
  ELSE PrependEvent(event_el.val,
                    TraceEvents(types, events, i + 1, emap, tmap, preserve, ta.val))

TraceEvents(types, events, i, emap, tmap, preserve, trace_attributes) ==
  IF i > Len(events) THEN TE("", << >>, << >>, trace_attributes)
  ELSE OneEvent(types, events, i, emap, tmap, preserve, trace_attributes,
                dict_to_element(types, events[i], emap, preserve),
                TraceAttributes(tmap, 1, events[i], trace_attributes))

\* ValueError is passed over; any other exception leaves the loop
CollectAttribute(made, rest) ==
  IF made.exc = "ValueError" THEN rest
  ELSE IF made.exc # "" THEN Raise(made.exc)
  ELSE IF rest.exc # "" THEN rest
  ELSE Ok(<<made.val>> \o rest.val)

\* lines 700-706, over trace_attributes.items() from position i on
RECURSIVE TraceAttributeElements(_, _, _)
TraceAttributeElements(types, items, i) ==
  IF i > Len(items) THEN Ok(<< >>)
  ELSE CollectAttribute(make_element(types, items[i][1], items[i][2]),
                        TraceAttributeElements(types, items, i + 1))

\* ------------------------------------------------------------- state
VARIABLES
  args,                      \* the parsed command line
  pc,                        \* where the script is
  err,                       \* the exception that ended the run, if one did
  extensions, typed_attributes,
  ext_i, type_i,             \* positions in args.xes_extensions and args.types
  event_attribute_mappings, trace_attribute_mappings,
  root_el, used_prefixes,
  pseudo_pools, pseudo_mappings,
  call,                      \* the last call of pseudonymise and its result
  traces, traces_in_order, count,
  nread,                     \* how many events the iterators have given
  loaded,                    \* the trace table as line 670 found it
  processed,                 \* the keys the loop of line 680 has been through
  outfile,                   \* << >>, or <<the document written>>
  ts, rendered               \* a datetime and what xesformat made of it

vars == <<args, pc, err, extensions, typed_attributes, ext_i, type_i,
          event_attribute_mappings, trace_attribute_mappings, root_el,
          used_prefixes, pseudo_pools, pseudo_mappings, call, traces,
          traces_in_order, count, nread, loaded, processed, outfile, ts, rendered>>

\* err: the exception, the stage it was raised in, and for the assertions the
\* trace and the name that the message gives
NoErr == [exc |-> "", at |-> "", trace |-> << >>, attr |-> << >>]
Err(exc, trace, attr) == [exc |-> exc, at |-> "", trace |-> trace, attr |-> attr]

NoCall == [kind |-> "", n |-> << >>, exc |-> "", val |-> << >>]

\* ------------------------------------------------------------- inputs
Str(x) == <<x>>
Tpl(f) == <<Ref(<<f>>)>>

ValidUuid ==
  <<"{">> \o [i \in 1..8 |-> IF i % 2 = 0 THEN "A" ELSE "1"] \o <<"-">> \o
  [i \in 1..24 |-> IF i % 3 = 0 THEN "f" ELSE "0"] \o <<"}">>
BadUuid == <<"n", "o", "t", "-", "a", "-", "u", "u", "i", "d">>

\* the events the iterators may give: dicts in their iteration order
Records ==
  { << <<Str("case"), Str("a")>>, <<Str("grp"), Str("x")>> >>,
    << <<Str("grp"), Str("y")>>, <<Str("case"), Str("a")>> >>,
    << <<Str("case"), Str("b")>>, <<Str("id"), ValidUuid>> >>,
    << <<Str("case"), Str("b")>>, <<Str("id"), BadUuid>>, <<Str("grp"), Str("x")>> >>,
    << <<Str("grp"), Str("x")>> >> }

ConceptName == <<"concept", ":", "name">>
OrgGroup == <<"org", ":", "group">>
IdId == <<"id", ":", "id">>

\* a user's extension, an attribute of it and a type for that attribute
XAttr == <<"x", ":", "n">>
XDecl == <<Str("x"), Str("X"), Str("urn:x")>>
XType == <<XAttr, "boolean">>

TraceAttrChoices ==
  { << >>,
    << <<ConceptName, Tpl("case")>> >>,
    << <<ConceptName, Tpl("case")>>, <<OrgGroup, Tpl("grp")>> >>,
    << <<ConceptName, Tpl("case")>>, <<IdId, Tpl("id")>> >> }

EventAttrChoices ==
  { << >>,
    << <<IdId, Tpl("id")>>, <<<<"note">>, <<Lit(<<"n">>)>> >> >>,
    << <<OrgGroup, Tpl("grp")>> >> }

MaxTracesChoices == { << >>, <<0>>, <<1>>, <<2>> }

PseudoChoices == { << >>, <<Str("case")>> }

Args(ea, ta, xe, ty, mt, de, pr, pn, pp, pu) ==
  [event_attrs |-> ea, trace_attrs |-> ta, xes_extensions |-> xe, types |-> ty,
   max_traces |-> mt, dump_events |-> de, preserve |-> pr,
   pseudo_names |-> pn, pseudo_places |-> pp, pseudo_uuids |-> pu]

\* the command lines: every trace mapping with every limit, every event
\* mapping with every trace mapping, and the switches one at a time
Configs ==
  {Args(<< >>, ta, << >>, << >>, mt, FALSE, FALSE, << >>, << >>, << >>) :
     ta \in TraceAttrChoices, mt \in MaxTracesChoices}
  \cup {Args(ea, ta, << >>, << >>, << >>, FALSE, FALSE, << >>, << >>, << >>) :
     ea \in EventAttrChoices, ta \in TraceAttrChoices}
  \cup {Args(<< >>, << <<ConceptName, Tpl("case")>> >>, << >>, << >>, << >>, de, pr,
             pn, << >>, << >>) :
     de \in BOOLEAN, pr \in BOOLEAN, pn \in PseudoChoices}
  \cup {Args(<< <<XAttr, Tpl("grp")>> >>, << >>, xe, ty, << >>, FALSE, FALSE,
             << >>, << >>, << >>) :
     xe \in {<< >>, <<XDecl>>}, ty \in {<< >>, <<XType>>}}

\* ------------------------------------------------------------- Init
\* the shuffled pool; a run that pseudonymises nothing with a kind never reads
\* the pool of the kind, and one order stands for all
PoolOrders(a, kind, l) ==
  IF \E f \in DOMAIN AttributesToPseudonymise(a) : AttributesToPseudonymise(a)[f] = kind
  THEN Shuffles(l) ELSE {l}

Pools(an, pl) ==
  [k \in Kinds |->
     [items |-> IF k = "name" THEN an ELSE IF k = "place" THEN pl ELSE << >>,
      used |-> 0]]

InitRun(a) ==
  /\ args = a
  /\ pc = "config"
  /\ err = NoErr
  /\ extensions = extensions0
  /\ typed_attributes = typed_attributes0
  /\ ext_i = 1
  /\ type_i = 1
  /\ event_attribute_mappings \in Orders(BuildMappings(a.event_attrs))
  /\ trace_attribute_mappings \in Orders(BuildMappings(a.trace_attrs))
  /\ root_el = << >>
  /\ used_prefixes = {}
  /\ \E an \in PoolOrders(a, "name", all_names), pl \in PoolOrders(a, "place", places) :
       pseudo_pools = Pools(an, pl)
  /\ pseudo_mappings = [k \in Kinds |-> << >>]
  /\ call = NoCall
  /\ traces = << >>
  /\ traces_in_order = << >>
  /\ count = 0
  /\ nread = 0
  /\ loaded = << >>
  /\ processed = << >>
  /\ outfile = << >>
  /\ ts = DateTime(1, 1, 1, 0, 0, 0, 0, << >>)
  /\ rendered = Raise("")

Init == \E a \in Configs : InitRun(a)

\* ------------------------------------------------------------- actions
Abort(e) == pc' = "aborted" /\ err' = [e EXCEPT !.at = pc]

Registered(r, decl) ==
  IF r.exc # ""
    THEN Abort(Err(r.exc, << >>, decl[1])) /\ UNCHANGED <<extensions, ext_i>>
    ELSE extensions' = r.val /\ ext_i' = ext_i + 1 /\ UNCHANGED <<pc, err>>

\* lines 560-567, one declaration
DeclareExtension ==
  /\ pc = "config"
  /\ ext_i <= Len(args.xes_extensions)
  /\ Registered(RegisterExtension(extensions, args.xes_extensions[ext_i]),
                args.xes_extensions[ext_i])
  /\ UNCHANGED <<args, typed_attributes, type_i, event_attribute_mappings,
                 trace_attribute_mappings, root_el, used_prefixes, pseudo_pools,
                 pseudo_mappings, call, traces, traces_in_order, count, nread,
                 loaded, processed, outfile, ts, rendered>>

Typed(r, decl) ==
  IF r.exc # ""
    THEN Abort(Err(r.exc, << >>, decl[1])) /\ UNCHANGED <<typed_attributes, type_i>>
    ELSE typed_attributes' = r.val /\ type_i' = type_i + 1 /\ UNCHANGED <<pc, err>>

\* lines 569-579, one declaration
DeclareType ==
  /\ pc = "config"
  /\ ext_i > Len(args.xes_extensions)
  /\ type_i <= Len(args.types)
  /\ Typed(RegisterType(typed_attributes, args.types[type_i]), args.types[type_i])
  /\ UNCHANGED <<args, extensions, ext_i, event_attribute_mappings,
                 trace_attribute_mappings, root_el, used_prefixes, pseudo_pools,
                 pseudo_mappings, call, traces, traces_in_order, count, nread,
                 loaded, processed, outfile, ts, rendered>>

\* event_attribute_mappings.keys() + trace_attribute_mappings.keys()
MappingKeys ==
  [i \in 1..Len(event_attribute_mappings) |-> event_attribute_mappings[i][1]] \o
  [i \in 1..Len(trace_attribute_mappings) |-> trace_attribute_mappings[i][1]]

Declared(els) ==
  IF els.exc # ""
    THEN Abort(Err(els.exc, << >>, << >>)) /\ UNCHANGED <<root_el, used_prefixes>>
    ELSE /\ root_el' = els.val
         /\ used_prefixes' = {els.val[i].prefix : i \in 1..Len(els.val)}
         /\ pc' = "pass1"
         /\ UNCHANGED err

\* lines 581-589
Header ==
  /\ pc = "config"
  /\ ext_i > Len(args.xes_extensions)
  /\ type_i > Len(args.types)
  /\ Declared(ExtensionElements(extensions, MappingKeys, 1, {}))
  /\ UNCHANGED <<args, extensions, typed_attributes, ext_i, type_i,
                 event_attribute_mappings, trace_attribute_mappings, pseudo_pools,
                 pseudo_mappings, call, traces, traces_in_order, count, nread,
                 loaded, processed, outfile, ts, rendered>>

\* lines 654-658
Routed(e, name) ==
  /\ traces' = [t \in DOMAIN traces \cup {name} |->
                  IF t = name
                    THEN (IF t \in DOMAIN traces THEN traces[t] ELSE << >>) \o <<e>>
                    ELSE traces[t]]
  /\ traces_in_order' =
       IF name \in DOMAIN traces THEN traces_in_order ELSE Append(traces_in_order, name)
  /\ count' = count + 1
  /\ UNCHANGED <<pc, err>>

\* lines 650-667 for the event e
Loaded(e, possible_name) ==
  IF args.dump_events \/ possible_name.exc # ""
    THEN UNCHANGED <<pc, err, traces, traces_in_order, count>>
    ELSE Routed(e, possible_name.val)

Pseudonymised(p) ==
  /\ pseudo_pools' = p.pools
  /\ pseudo_mappings' = p.mappings
  /\ IF p.exc # ""
       THEN Abort(Err(p.exc, << >>, << >>)) /\ UNCHANGED <<traces, traces_in_order, count>>
       ELSE Loaded(p.e, Route(TraceNames(trace_attribute_mappings), p.e, 1))

\* lines 644-667, for the event e0 that the iterator gives
ReadRecord(e0) ==
  /\ pc = "pass1"
  /\ nread < MaxRecords
  /\ nread' = nread + 1
  /\ Pseudonymised(PseudonymiseEvent(pseudo_pools, pseudo_mappings,
                                     AttributesToPseudonymise(args), e0, 1))
  /\ UNCHANGED <<args, extensions, typed_attributes, ext_i, type_i,
                 event_attribute_mappings, trace_attribute_mappings, root_el,
                 used_prefixes, call, loaded, processed, outfile, ts, rendered>>

\* lines 668-679, when the iterators are exhausted
FinishLoading ==
  /\ pc = "pass1"
  /\ IF args.dump_events
       THEN pc' = "exited" /\ UNCHANGED <<traces, loaded, count>>
       ELSE /\ loaded' = traces
            /\ traces' = Prune(traces, traces_in_order, args.max_traces)
            /\ count' = 0
            /\ pc' = "assemble"
  /\ UNCHANGED <<args, err, extensions, typed_attributes, ext_i, type_i,
                 event_attribute_mappings, trace_attribute_mappings, root_el,
                 used_prefixes, pseudo_pools, pseudo_mappings, call,
                 traces_in_order, nread, processed, outfile, ts, rendered>>

\* lines 700-709
Inserted(trace, attrs, els) ==
  IF attrs.exc # ""
    THEN Abort(Err(attrs.exc, trace, << >>)) /\ UNCHANGED <<root_el, processed, count>>
    ELSE /\ root_el' = Append(root_el, [tag |-> "trace", children |-> attrs.val \o els])
         /\ processed' = Append(processed, trace)
         /\ count' = count + 1
         /\ UNCHANGED <<pc, err>>

\* items is trace_attributes.items(), in one of the orders the dict may have
Assembled(trace, evs) ==
  IF evs.exc # ""
    THEN Abort(Err(evs.exc, trace, evs.attr)) /\ UNCHANGED <<root_el, processed, count>>
    ELSE \E items \in Orders(evs.trace_attributes) :
           Inserted(trace, TraceAttributeElements(typed_attributes, items, 1), evs.els)

\* lines 680-709, for the key that the iteration over the dict gives next
AssembleTrace(trace) ==
  /\ pc = "assemble"
  /\ trace \in DOMAIN traces
  /\ trace \notin Range(processed)
  /\ Assembled(trace, TraceEvents(typed_attributes, traces[trace], 1,
                                  event_attribute_mappings, trace_attribute_mappings,
                                  args.preserve, << >>))
  /\ UNCHANGED <<args, extensions, typed_attributes, ext_i, type_i,
                 event_attribute_mappings, trace_attribute_mappings,
                 used_prefixes, pseudo_pools, pseudo_mappings, call, traces,
                 traces_in_order, nread, loaded, outfile, ts, rendered>>

\* lines 713-719
Write ==
  /\ pc = "assemble"
  /\ DOMAIN traces = Range(processed)
  /\ outfile' = <<root_el>>
  /\ pc' = "done"
  /\ UNCHANGED <<args, err, extensions, typed_attributes, ext_i, type_i,
                 event_attribute_mappings, trace_attribute_mappings, root_el,
                 used_prefixes, pseudo_pools, pseudo_mappings, call, traces,
                 traces_in_order, count, nread, loaded, processed, ts, rendered>>

Next ==
  \/ DeclareExtension
  \/ DeclareType
  \/ Header
  \/ \E e0 \in Records : ReadRecord(e0)
  \/ FinishLoading
  \/ \E trace \in DOMAIN traces : AssembleTrace(trace)
  \/ Write

Spec == Init /\ [][Next]_vars

\* ------------------------------------------------------------- registration alone
\* lines 560-579 under every short list of declarations
ExtDecls ==
  { <<Str("concept"), Str("Concept"), Str("http://www.xes-standard.org/concept.xesext")>>,
    <<Str("concept"), Str("Concept"), Str("urn:other")>>,
    XDecl,
    <<Str("x"), Str("Y"), Str("urn:x")>> }

TypeDecls ==
  { <<<<"cost", ":", "total">>, "float">>,
    <<<<"cost", ":", "total">>, "int">>,
    XType,
    <<XAttr, "date">>,
    <<XAttr, "_uuid">>,
    <<XAttr, "decimal">> }

DeclSeqs(S) == UNION {[1..n -> S] : n \in 0..MaxDecls}

InitReg ==
  \E xe \in DeclSeqs(ExtDecls), ty \in DeclSeqs(TypeDecls) :
    InitRun(Args(<< >>, << >>, xe, ty, << >>, FALSE, FALSE, << >>, << >>, << >>))

NextReg ==
  \/ DeclareExtension
  \/ DeclareType

SpecReg == InitReg /\ [][NextReg]_vars

\* ------------------------------------------------------------- pseudonymise alone
RawValues == {Str("a"), Str("b"), PyNone}

Called(kind, n, r) ==
  /\ call' = [kind |-> kind, n |-> n, exc |-> r.exc, val |-> r.val]
  /\ pseudo_pools' = r.pools
  /\ pseudo_mappings' = r.mappings
  /\ IF r.exc # "" THEN Abort(Err(r.exc, << >>, << >>)) ELSE UNCHANGED <<pc, err>>

\* lines 106-116: one call
Pseudonymise(kind, n) ==
  /\ pc = "pass1"
  /\ Called(kind, n, pseudonymise(pseudo_pools, pseudo_mappings, kind, n))
  /\ UNCHANGED <<args, extensions, typed_attributes, ext_i, type_i,
                 event_attribute_mappings, trace_attribute_mappings, root_el,
                 used_prefixes, traces, traces_in_order, count, nread, loaded,
                 processed, outfile, ts, rendered>>

InitPseudo ==
  \E an \in Shuffles(all_names), pl \in Shuffles(places) :
    /\ args = Args(<< >>, << >>, << >>, << >>, << >>, FALSE, FALSE,
                   <<Str("n")>>, <<Str("p")>>, <<Str("u")>>)
    /\ pc = "pass1"
    /\ err = NoErr
    /\ extensions = extensions0
    /\ typed_attributes = typed_attributes0
    /\ ext_i = 1
    /\ type_i = 1
    /\ event_attribute_mappings = << >>
    /\ trace_attribute_mappings = << >>
    /\ root_el = << >>
    /\ used_prefixes = {}
    /\ pseudo_pools = Pools(an, pl)
    /\ pseudo_mappings = [k \in Kinds |-> << >>]
    /\ call = NoCall
    /\ traces = << >>
    /\ traces_in_order = << >>
    /\ count = 0
    /\ nread = 0
    /\ loaded = << >>
    /\ processed = << >>
    /\ outfile = << >>
    /\ ts = DateTime(1, 1, 1, 0, 0, 0, 0, << >>)
    /\ rendered = Raise("")

NextPseudo == \E kind \in Kinds, n \in RawValues : Pseudonymise(kind, n)

SpecPseudo == InitPseudo /\ [][NextPseudo]_vars

\* ------------------------------------------------------------- xesformat alone
\* what dateutil.parser.parse may return
DateTimes ==
  {DateTime(y, mo, d, h, mi, sec, us, tz) :
     y \in {987, 2018}, mo \in {1, 12}, d \in {1, 31}, h \in {0, 23}, mi \in {0, 59},
     sec \in {0, 59}, us \in {0, 999, 1000, 123456, 999999},
     tz \in {<< >>, <<0>>, <<60>>, <<0 - 330>>}}

\* lines 150-165: one call
Render ==
  /\ pc = "xesformat"
  /\ rendered' = xesformat(ts)
  /\ pc' = "returned"
  /\ UNCHANGED <<args, err, extensions, typed_attributes, ext_i, type_i,
                 event_attribute_mappings, trace_attribute_mappings, root_el,
                 used_prefixes, pseudo_pools, pseudo_mappings, call, traces,
                 traces_in_order, count, nread, loaded, processed, outfile, ts>>

InitDate ==
  \E t \in DateTimes :
    /\ args = Args(<< >>, << >>, << >>, << >>, << >>, FALSE, FALSE, << >>, << >>, << >>)
    /\ pc = "xesformat"
    /\ err = NoErr
    /\ extensions = extensions0
    /\ typed_attributes = typed_attributes0
    /\ ext_i = 1
    /\ type_i = 1
    /\ event_attribute_mappings = << >>
    /\ trace_attribute_mappings = << >>
    /\ root_el = << >>
    /\ used_prefixes = {}
    /\ pseudo_pools = Pools(all_names, places)
    /\ pseudo_mappings = [k \in Kinds |-> << >>]
    /\ call = NoCall
    /\ traces = << >>
    /\ traces_in_order = << >>
    /\ count = 0
    /\ nread = 0
    /\ loaded = << >>
    /\ processed = << >>
    /\ outfile = << >>
    /\ ts = t
    /\ rendered = Raise("")

NextDate == Render

SpecDate == InitDate /\ [][NextDate]_vars

\* ------------------------------------------------------------- mapping alone
\* the run from line 680 on, after pass one has read one event: every event
\* with or without each of four fields, under every choice of four event rules
CountAttr == <<"c", "o", "u", "n", "t">>
CountType == <<CountAttr, "int">>
CostTotal == <<"cost", ":", "total">>
TimeTimestamp == <<"time", ":", "timestamp">>

MapRules ==
  << <<ConceptName, Tpl("case")>>, <<CountAttr, Tpl("n")>>,
     <<CostTotal, Tpl("c")>>, <<TimeTimestamp, Tpl("t")>> >>

NaiveDate ==
  <<"2", "0", "1", "8", "-", "0", "1", "-", "0", "2", "T", "0", "3", ":", "0", "4", ":", "0", "5">>
OffsetDate == NaiveDate \o <<"+", "0", "1", ":", "0", "0">>
BadDate == <<"y", "e", "s", "t", "e", "r", "d", "a", "y", "!">>

FieldChoices(f, values) == {<< >>} \cup {<< <<Str(f), v>> >> : v \in values}

MapRecords ==
  {a \o b \o c \o d :
     a \in FieldChoices("case", {Str("a")}),
     b \in FieldChoices("n", {<<"1", "2">>, <<"1", "x">>}),
     c \in FieldChoices("c", {<<"1", ".", "5", "0">>, <<"a", "b", "c">>}),
     d \in FieldChoices("t", {NaiveDate, OffsetDate, BadDate})}

\* the entries of seq at the positions in S
RECURSIVE Pick(_, _)
Pick(seq, S) ==
  IF seq = << >> THEN << >>
  ELSE Pick(SubSeq(seq, 1, Len(seq) - 1), S) \o
       (IF Len(seq) \in S THEN <<seq[Len(seq)]>> ELSE << >>)

MapConfigs ==
  {Args(Pick(MapRules, S), << >>, << >>, <<CountType>>, << >>, FALSE, pr,
        << >>, << >>, << >>) :
     S \in SUBSET (1..Len(MapRules)), pr \in BOOLEAN}

\* the state that lines 546-679 leave for the command line a, the order emap of
\* the event mapping dict and the one event d
LoadedOne(a, emap, d) ==
  /\ args = a
  /\ pc = "assemble"
  /\ err = NoErr
  /\ extensions = extensions0
  /\ typed_attributes = RegisterType(typed_attributes0, CountType).val
  /\ ext_i = 1
  /\ type_i = 2
  /\ event_attribute_mappings = emap
  /\ trace_attribute_mappings = << >>
  /\ root_el = ExtensionElements(extensions0, [i \in 1..Len(emap) |-> emap[i][1]], 1, {}).val
  /\ used_prefixes = {emap[i][1][1] : i \in {j \in 1..Len(emap) : Truthy(emap[j][1][1])}}
  /\ pseudo_pools = Pools(all_names, places)
  /\ pseudo_mappings = [k \in Kinds |-> << >>]
  /\ call = NoCall
  /\ traces = [t \in {<< >>} |-> <<d>>]
  /\ traces_in_order = << << >> >>
  /\ count = 0
  /\ nread = 1
  /\ loaded = [t \in {<< >>} |-> <<d>>]
  /\ processed = << >>
  /\ outfile = << >>
  /\ ts = DateTime(1, 1, 1, 0, 0, 0, 0, << >>)
  /\ rendered = Raise("")

InitMap ==
  \E a \in MapConfigs, d \in MapRecords :
    \E emap \in Orders(BuildMappings(a.event_attrs)) : LoadedOne(a, emap, d)

NextMap ==
  \/ \E trace \in DOMAIN traces : AssembleTrace(trace)
  \/ Write

SpecMap == InitMap /\ [][NextMap]_vars

\* ------------------------------------------------------------- keys and names
\* the run under a concept:name trace rule, over events whose case field is
\* absent, empty or set
KeyRecords ==
  { << <<Str("grp"), Str("x")>> >>,
    << <<Str("case"), << >> >> >>,
    << <<Str("case"), Str("a")>>, <<Str("grp"), Str("x")>> >>,
    << <<Str("grp"), Str("y")>>, <<Str("case"), Str("a")>> >>,
    << <<Str("case"), Str("b")>> >> }

KeyConfigs ==
  {Args(<< >>, ta, << >>, << >>, mt, FALSE, FALSE, pn, << >>, << >>) :
     ta \in { << <<ConceptName, Tpl("case")>> >>,
              << <<ConceptName, Tpl("case")>>, <<OrgGroup, Tpl("grp")>> >> },
     mt \in { << >>, <<1>> },
     pn \in PseudoChoices}

InitKey == \E a \in KeyConfigs : InitRun(a)

NextKey ==
  \/ Header
  \/ \E e0 \in KeyRecords : ReadRecord(e0)
  \/ FinishLoading
  \/ \E trace \in DOMAIN traces : AssembleTrace(trace)
  \/ Write

SpecKey == InitKey /\ [][NextKey]_vars

\* ------------------------------------------------------------- properties
Injective(f) == \A a, b \in DOMAIN f : f[a] = f[b] => a = b
Values(f) == {f[a] : a \in DOMAIN f}
Grows(f, g) == \A a \in DOMAIN f : a \in DOMAIN g /\ g[a] = f[a]

\* C9.  Registries are append-only and conflict-checked.  In every step no
\* binding of the extension table or of the type registry changes or goes; a
\* declaration whose key is bound to something else aborts the run and leaves
\* the table as it was, an identical redeclaration leaves it as it was and the
\* run goes on, and a declaration of a new key adds that binding and no other.
ExtensionDeclared(d) ==
  IF d[1] \in DOMAIN extensions
    THEN /\ extensions' = extensions
         /\ (pc' = "aborted") = (extensions[d[1]] # <<d[2], d[3]>>)
    ELSE /\ DOMAIN extensions' = DOMAIN extensions \cup {d[1]}
         /\ extensions'[d[1]] = <<d[2], d[3]>>
         /\ pc' # "aborted"

TypeDeclared(name, t) ==
  IF t \notin elementary_attribute_types
    THEN typed_attributes' = typed_attributes /\ pc' = "aborted"
  ELSE IF name \in DOMAIN typed_attributes
    THEN /\ typed_attributes' = typed_attributes
         /\ (pc' = "aborted") = (typed_attributes[name] # t)
    ELSE /\ DOMAIN typed_attributes' = DOMAIN typed_attributes \cup {name}
         /\ typed_attributes'[name] = t
         /\ pc' # "aborted"

RegistryStep ==
  /\ Grows(extensions, extensions')
  /\ Grows(typed_attributes, typed_attributes')
  /\ (pc = "config" /\ ext_i <= Len(args.xes_extensions))
       => ExtensionDeclared(args.xes_extensions[ext_i]) /\ typed_attributes' = typed_attributes
  /\ (pc = "config" /\ ext_i > Len(args.xes_extensions) /\ type_i <= Len(args.types))
       => /\ TypeDeclared(raw_name_to_name(args.types[type_i][1]), args.types[type_i][2])
          /\ extensions' = extensions

C9_RegistriesAppendOnly == [][RegistryStep]_vars

\* a new extension was bound, and a later declaration then met a conflict
C9_Witness ==
  /\ pc = "aborted"
  /\ err.exc = "AssertionError"
  /\ <<"x">> \in DOMAIN extensions
  /\ extensions[<<"x">>] = << <<"X">>, <<"urn:x">> >>
  /\ \A p \in DOMAIN extensions0 : extensions[p] = extensions0[p]

\* C3.  Pseudonym stability and distinctness.  The memo of every kind only
\* grows and is injective; a call returns what the memo holds for its value,
\* and when the memo already held the value, the call returns that substitute.
PseudonymStep ==
  /\ \A k \in Kinds : Grows(pseudo_mappings[k], pseudo_mappings'[k])
  /\ \A k \in Kinds : Injective(pseudo_mappings'[k])
  /\ call'.exc = ""
       => /\ call'.n \in DOMAIN pseudo_mappings'[call'.kind]
          /\ call'.val = pseudo_mappings'[call'.kind][call'.n]
  /\ call'.n \in DOMAIN pseudo_mappings[call'.kind]
       => /\ call'.exc = ""
          /\ call'.val = pseudo_mappings[call'.kind][call'.n]

C3_PseudonymStable == [][PseudonymStep]_vars

\* "a" got the first name of the pool, "b" the second, and "a" was asked for
\* again and got the first
C3_Witness ==
  /\ pseudo_pools["name"].used = 2
  /\ call.kind = "name" /\ call.n = <<"a">> /\ call.exc = ""
  /\ call.val = pseudo_pools["name"].items[1]
  /\ <<"b">> \in DOMAIN pseudo_mappings["name"]
  /\ pseudo_mappings["name"][<<"b">>] = pseudo_pools["name"].items[2]

\* C4.  Pool consumption.  The iterators only advance.  A call for a value the
\* memo lacks takes one entry, the next of its pool, which no value had been
\* given; a call for a value the memo holds takes none.  A name or place pool
\* with no entry left ends the run and leaves memo and pools as they were; the
\* uuid pool always has a next value.
PoolStep ==
  LET k == call'.kind
      first == call'.n \notin DOMAIN pseudo_mappings[k]
      empty == k # "uuid" /\ pseudo_pools[k].used = Len(pseudo_pools[k].items)
  IN /\ \A j \in Kinds : pseudo_pools'[j].used >= pseudo_pools[j].used
     /\ \A j \in Kinds \ {k} : pseudo_pools'[j] = pseudo_pools[j]
     /\ ~first => pseudo_pools' = pseudo_pools /\ call'.exc = ""
     /\ first /\ ~empty
          => /\ call'.exc = ""
             /\ pseudo_pools'[k].used = pseudo_pools[k].used + 1
             /\ call'.val \notin Values(pseudo_mappings[k])
             /\ k # "uuid" => call'.val = pseudo_pools[k].items[pseudo_pools[k].used + 1]
     /\ first /\ empty
          => /\ call'.exc = "Exception"
             /\ pc' = "aborted"
             /\ pseudo_mappings' = pseudo_mappings
             /\ pseudo_pools' = pseudo_pools

C4_PoolConsumption == [][PoolStep]_vars

\* the uuid pool has given more values than the name pool holds, and the name
\* pool has run out under a new value
C4_Witness ==
  /\ pc = "aborted"
  /\ call.kind = "name" /\ call.exc = "Exception"
  /\ pseudo_pools["name"].used = Len(all_names)
  /\ call.n \notin DOMAIN pseudo_mappings["name"]
  /\ pseudo_pools["uuid"].used > Len(all_names)

\* C10.  Date coercion.  xesformat returns for every datetime, and what it
\* returns is YYYY-MM-DDTHH:MM:SS.mmm, three digits of milliseconds, and then Z
\* for a value with no offset or a sign and HH:MM.
TwoDigits(s) == Len(s) = 2 /\ AllDigits(s)

XesZone(z, tz) ==
  IF tz = << >> THEN z = <<"Z">>
  ELSE \/ tz[1] = 0 /\ z = <<"Z">>
       \/ /\ Len(z) = 6
          /\ z[1] = (IF tz[1] < 0 THEN "-" ELSE "+")
          /\ TwoDigits(SubSeq(z, 2, 3)) /\ z[4] = ":" /\ TwoDigits(SubSeq(z, 5, 6))

XesShape(s, tz) ==
  /\ Len(s) >= 24
  /\ AllDigits(SubSeq(s, 1, 4)) /\ s[5] = "-" /\ TwoDigits(SubSeq(s, 6, 7)) /\ s[8] = "-"
  /\ TwoDigits(SubSeq(s, 9, 10)) /\ s[11] = "T" /\ TwoDigits(SubSeq(s, 12, 13))
  /\ s[14] = ":" /\ TwoDigits(SubSeq(s, 15, 16)) /\ s[17] = ":"
  /\ TwoDigits(SubSeq(s, 18, 19)) /\ s[20] = "." /\ AllDigits(SubSeq(s, 21, 23))
  /\ XesZone(SubSeq(s, 24, Len(s)), tz)

C10_DateRendering ==
  pc = "returned" => rendered.exc = "" /\ XesShape(rendered.val, ts.tz)

\* ------------------------------------------------------------- the run
RECURSIVE TotalMembers(_)
TotalMembers(trs) ==
  IF DOMAIN trs = {} THEN 0
  ELSE LET k == CHOOSE x \in DOMAIN trs : TRUE
       IN Len(trs[k]) + TotalMembers([t \in DOMAIN trs \ {k} |-> trs[t]])

\* pass one is over and pass two has begun
PassOneDone == pc \in {"assemble", "done"} \/ (pc = "aborted" /\ err.at = "assemble")
\* the header of line 581-589 was written
AfterHeader ==
  pc \in {"pass1", "exited", "assemble", "done"}
  \/ (pc = "aborted" /\ err.at \in {"pass1", "assemble"})

Pos(seq, x) == CHOOSE i \in 1..Len(seq) : seq[i] = x
ExtensionEls(doc) == SelectSeq(doc, LAMBDA el : el.tag = "extension")
TraceEls(doc) == SelectSeq(doc, LAMBDA el : el.tag = "trace")
EventEls(trace_el) == SelectSeq(trace_el.children, LAMBDA el : el.tag = "event")
HasKey(children, key) == \E i \in 1..Len(children) : children[i].tag # "event" /\ children[i].key = key

\* the template of the concept:name trace rule does not format on e
ConceptNameAbsent(e) ==
  \E i \in 1..Len(trace_attribute_mappings) :
    /\ trace_attribute_mappings[i][1] = N("concept", "name")
    /\ Format(trace_attribute_mappings[i][2], e).exc = "KeyError"

\* C1.  Trace Router totality.  Outside dump-events mode, while and after the
\* events are read, the member lists of the traces hold as many events as the
\* iterators gave (so each event is in one list, once), the traces are those of
\* traces_in_order, and an event on which the concept:name template fails for
\* an absent field is a member of the trace with the empty key.
RoutedAll(table) ==
  /\ TotalMembers(table) = nread
  /\ DOMAIN table = Range(traces_in_order)
  /\ Len(traces_in_order) = Cardinality(DOMAIN table)
  /\ \A k \in DOMAIN table : \A i \in 1..Len(table[k]) :
       ConceptNameAbsent(table[k][i]) => k = << >>

C1_RouterTotality ==
  /\ (pc = "pass1" /\ ~args.dump_events) => RoutedAll(traces) /\ count = nread
  /\ PassOneDone => RoutedAll(loaded)

\* three events were read under a concept:name rule; one lacked the field and
\* fell to the empty key, the others went to a named trace
C1_Witness ==
  /\ pc = "assemble"
  /\ nread >= 3
  /\ N("concept", "name") \in Keys(trace_attribute_mappings)
  /\ << >> \in DOMAIN loaded
  /\ \E k \in DOMAIN loaded : k # << >> /\ Len(loaded[k]) >= 2

\* the members disagree on some trace rule
Disagree(members, tmap) ==
  \E r \in 1..Len(tmap) : \E i, j \in 1..Len(members) :
    /\ Format(tmap[r][2], members[i]).exc = ""
    /\ Format(tmap[r][2], members[j]).exc = ""
    /\ Format(tmap[r][2], members[i]).val # Format(tmap[r][2], members[j]).val

DisagreeOn(members, tmap, raw_name) ==
  Disagree(members, SelectSeq(tmap, LAMBDA item : name_to_raw_name(item[1]) = raw_name))

\* C2 as claimed.  Trace-attribute consistency over every trace: a document is
\* written only if no trace that pass one built has two members that differ on
\* a trace rule.
C2_EveryTraceConsistent ==
  outfile # << >> =>
    \A k \in DOMAIN loaded : ~Disagree(loaded[k], trace_attribute_mappings)

\* C2 as amended.  Trace-attribute consistency over the traces that the
\* truncation keeps: a document is written only if none of them has two
\* members that differ on a trace rule, and the assertion that ends the run
\* names a kept trace and a rule on which two of its members differ.
C2_KeptTracesConsistent ==
  /\ outfile # << >> =>
       \A k \in DOMAIN traces : ~Disagree(traces[k], trace_attribute_mappings)
  /\ (pc = "aborted" /\ err.at = "assemble" /\ err.exc = "AssertionError") =>
       /\ outfile = << >>
       /\ err.trace \in DOMAIN traces
       /\ DisagreeOn(traces[err.trace], trace_attribute_mappings, err.attr)

\* two members of trace "a" differ on org:group, and the run ended there
C2_Witness ==
  /\ pc = "aborted" /\ err.at = "assemble" /\ err.exc = "AssertionError"
  /\ err.trace = <<"a">> /\ err.attr = <<"org", ":", "group">>
  /\ Len(traces[<<"a">>]) >= 2

\* C5.  Truncation.  With a maximum trace count N >= 0, the traces that pass
\* two works on are the first min(N, number of traces) keys of
\* traces_in_order, each with all its members, and a document that is written
\* holds exactly those.
Min(a, b) == IF a < b THEN a ELSE b

C5_Truncation ==
  (PassOneDone /\ args.max_traces # << >> /\ args.max_traces[1] >= 0) =>
     /\ DOMAIN traces =
          Range(SubSeq(traces_in_order, 1, Min(args.max_traces[1], Len(traces_in_order))))
     /\ \A k \in DOMAIN traces : traces[k] = loaded[k]
     /\ outfile # << >> => Range(processed) = DOMAIN traces

\* C6.  Emission order.  The traces are emitted in the order of
\* traces_in_order; in each trace element the attribute elements come before
\* the event elements, and the event elements are those of the members in
\* arrival order.
TraceElementOrdered(trace_el, members) ==
  /\ \A i, j \in 1..Len(trace_el.children) :
       (trace_el.children[i].tag # "event" /\ trace_el.children[j].tag = "event") => i < j
  /\ Len(EventEls(trace_el)) = Len(members)
  /\ \A i \in 1..Len(members) :
       EventEls(trace_el)[i] =
         dict_to_element(typed_attributes, members[i], event_attribute_mappings,
                         args.preserve).val

C6_EmissionOrder ==
  PassOneDone =>
    /\ Len(TraceEls(root_el)) = Len(processed)
    /\ \A i, j \in 1..Len(processed) :
         i < j => Pos(traces_in_order, processed[i]) < Pos(traces_in_order, processed[j])
    /\ \A i \in 1..Len(processed) :
         TraceElementOrdered(TraceEls(root_el)[i], traces[processed[i]])

\* the prefixes that the mapping rules name
ReferencedPrefixes ==
  {MappingKeys[i][1] : i \in {j \in 1..Len(MappingKeys) : Truthy(MappingKeys[j][1])}}

ExtensionPrefixes(doc) == [i \in 1..Len(ExtensionEls(doc)) |-> ExtensionEls(doc)[i].prefix]

NoRepeats(seq) == \A i, j \in 1..Len(seq) : seq[i] = seq[j] => i = j

DeclaredAsRegistered(doc) ==
  \A i \in 1..Len(ExtensionEls(doc)) :
    LET el == ExtensionEls(doc)[i]
    IN el.prefix \in DOMAIN extensions /\ <<el.name, el.uri>> = extensions[el.prefix]

\* C7 as claimed.  Extension header: one extension element for each prefix that
\* a mapping rule names, and one for concept whether or not a rule names it.
C7_HeaderWithConcept ==
  AfterHeader =>
    /\ NoRepeats(ExtensionPrefixes(root_el))
    /\ Range(ExtensionPrefixes(root_el)) = ReferencedPrefixes \cup {<<"concept">>}
    /\ DeclaredAsRegistered(root_el)

\* the run ended where the header is built, after the declarations
HeaderFailed ==
  /\ pc = "aborted" /\ err.at = "config"
  /\ ext_i > Len(args.xes_extensions) /\ type_i > Len(args.types)

\* C7 as amended.  Extension header: one extension element for each prefix that
\* a mapping rule names, with the name and URI of the extension table, and no
\* other; concept is declared only when a rule names it.  A run that ends
\* where the header is built names a prefix that the table lacks.
C7_HeaderOfReferenced ==
  /\ AfterHeader =>
       /\ NoRepeats(ExtensionPrefixes(root_el))
       /\ Range(ExtensionPrefixes(root_el)) = ReferencedPrefixes
       /\ used_prefixes = ReferencedPrefixes
       /\ DeclaredAsRegistered(root_el)
  /\ HeaderFailed =>
       /\ \E p \in ReferencedPrefixes : p \notin DOMAIN extensions
       /\ root_el = << >> /\ nread = 0

\* a document was written whose rules name id, and one rule has no prefix:
\* the header declares id and nothing else
C7_Witness ==
  /\ outfile # << >>
  /\ \E i \in 1..Len(MappingKeys) : ~Truthy(MappingKeys[i][1])
  /\ ExtensionPrefixes(outfile[1]) = << <<"id">> >>

\* the rules of a mapping that encode with the uuid subtype and whose value on
\* the event e is not a UUID / is one
UuidRules(mappings) ==
  {i \in 1..Len(mappings) : TypeOf(typed_attributes, mappings[i][1]) = "_uuid"}
Malformed(mappings, i, e) ==
  Format(mappings[i][2], e).exc = "" /\ UUID(Format(mappings[i][2], e).val).exc # ""
WellFormed(mappings, i, e) ==
  Format(mappings[i][2], e).exc = "" /\ UUID(Format(mappings[i][2], e).val).exc = ""

MalformedIn(members) ==
  \E j \in 1..Len(members) :
    \/ \E i \in UuidRules(event_attribute_mappings) :
         Malformed(event_attribute_mappings, i, members[j])
    \/ \E i \in UuidRules(trace_attribute_mappings) :
         Malformed(trace_attribute_mappings, i, members[j])

\* C8 as claimed.  A malformed value for an attribute of the uuid subtype is
\* fatal: no document is written from a trace with a member that gives one,
\* through an event rule or a trace rule.
C8_MalformedUuidFatal ==
  outfile # << >> => \A k \in DOMAIN traces : ~MalformedIn(traces[k])

\* the event element of the member e carries the attributes of the string rules
\* that format, and of a uuid rule exactly when its value is a UUID
EventUuidDropped(event_el, e) ==
  \A i \in 1..Len(event_attribute_mappings) :
    LET name == event_attribute_mappings[i][1]
        has == HasKey(event_el.children, name_to_raw_name(name))
    IN /\ (TypeOf(typed_attributes, name) = "_uuid")
            => (has <=> WellFormed(event_attribute_mappings, i, e))
       /\ (TypeOf(typed_attributes, name) = "string")
            => (has <=> Format(event_attribute_mappings[i][2], e).exc = "")

\* the trace element carries the attribute of a uuid rule exactly when the
\* value that its members give is a UUID
TraceUuidDropped(trace_el, members) ==
  \A i \in UuidRules(trace_attribute_mappings) :
    HasKey(trace_el.children, name_to_raw_name(trace_attribute_mappings[i][1]))
      <=> \E j \in 1..Len(members) : WellFormed(trace_attribute_mappings, i, members[j])

\* C8 as amended.  A malformed value for an attribute of the uuid subtype is
\* not fatal: no run ends with the ValueError, and in a document that is
\* written every member has its event element, which lacks that attribute and
\* no other, and a trace element lacks the trace attribute likewise.
C8_MalformedUuidDropped ==
  /\ pc = "aborted" => err.exc # "ValueError"
  /\ outfile # << >> =>
       \A t \in 1..Len(processed) :
         LET trace_el == TraceEls(outfile[1])[t]
             members == traces[processed[t]]
         IN /\ Len(EventEls(trace_el)) = Len(members)
            /\ \A j \in 1..Len(members) : EventUuidDropped(EventEls(trace_el)[j], members[j])
            /\ TraceUuidDropped(trace_el, members)

\* a document was written from a member whose id is not a UUID, under an event
\* rule for id:id and another rule: the event has the other attribute only;
\* and in another run under a trace rule for id:id
C8_Witness ==
  /\ outfile # << >>
  /\ \E t \in 1..Len(processed) : \E j \in 1..Len(traces[processed[t]]) :
       /\ \E i \in UuidRules(event_attribute_mappings) :
            Malformed(event_attribute_mappings, i, traces[processed[t]][j])
       /\ HasKey(EventEls(TraceEls(outfile[1])[t])[j].children, <<"note">>)
       /\ ~HasKey(EventEls(TraceEls(outfile[1])[t])[j].children, <<"id", ":", "id">>)

\* the rule item of the event mapping makes an element from the event e
Coerces(item, e) == Mapped(typed_attributes, e, item).exc = ""

\* C11.  Rule independence.  Once the trace of an event has been through the
\* assembly, the run has not ended: the trace element is in the document with
\* the element of the event, which holds, for each event rule, the typed
\* attribute that the rule makes when its template formats and its value is
\* coerced, and nothing when the field is absent or the coercion fails.
C11_RuleIndependence ==
  (pc # "assemble" \/ processed # << >>) =>
    /\ pc # "aborted"
    /\ Len(TraceEls(root_el)) = 1
    /\ Len(EventEls(TraceEls(root_el)[1])) = 1
    /\ \A d \in Range(traces[<< >>]) :
         \A i \in 1..Len(event_attribute_mappings) :
           LET item == event_attribute_mappings[i]
               children == EventEls(TraceEls(root_el)[1])[1].children
           IN IF Coerces(item, d)
                THEN \E k \in 1..Len(children) :
                       children[k] = Mapped(typed_attributes, d, item).val
                ELSE ~HasKey(children, name_to_raw_name(item[1]))

\* C12.  The uuid subtype is bound to id:id only.  Whatever declarations the
\* registration has accepted, the type registry binds no other attribute name
\* to the uuid subtype, so that every other name is encoded as one of string,
\* date, int, float, boolean and id.
C12_UuidOnlyIdId ==
  pc # "aborted" =>
    \A name \in DOMAIN typed_attributes :
      name # N("id", "id") =>
        /\ typed_attributes[name] # "_uuid"
        /\ TypeOf(typed_attributes, name) \in
             {"string", "date", "int", "float", "boolean", "id"}

\* the concept:name children of a trace element
NameEls(trace_el) ==
  SelectSeq(trace_el.children,
            LAMBDA el : el.tag # "event" /\ el.key = name_to_raw_name(N("concept", "name")))

\* the values that the concept:name rule makes of the members
NameValues(members) ==
  {Format(trace_attribute_mappings[i][2], members[j]).val :
     i \in {r \in 1..Len(trace_attribute_mappings) :
              trace_attribute_mappings[r][1] = N("concept", "name")},
     j \in {m \in 1..Len(members) : ~ConceptNameAbsent(members[m])}}

\* C13.  Router and mapper agree on concept:name.  Under a concept:name trace
\* rule, a member of a trace on which the rule's template formats gives the key
\* of the trace; an emitted trace element has at most one concept:name
\* attribute, a string whose value is the key; it has one when the key is not
\* empty, and under the empty key exactly when some member did not fall
\* through; and no run ends with a disagreement on concept:name.
C13_KeyIsConceptName ==
  /\ \A k \in DOMAIN traces : NameValues(traces[k]) \subseteq {k}
  /\ PassOneDone =>
       \A t \in 1..Len(processed) :
         LET els == NameEls(TraceEls(root_el)[t])
         IN /\ Len(els) <= 1
            /\ \A i \in 1..Len(els) : els[i].tag = "string" /\ els[i].value = processed[t]
            /\ processed[t] # << >> => Len(els) = 1
            /\ processed[t] = << >> =>
                 (Len(els) = 1 <=> NameValues(traces[processed[t]]) # {})
  /\ pc = "aborted" /\ err.exc = "AssertionError" =>
       err.attr # name_to_raw_name(N("concept", "name"))

\* a document was written with a named trace, which has its name, and with the
\* trace of the empty key, which has the empty name from one member while
\* another member fell through
C13_Witness ==
  /\ outfile # << >>
  /\ \E t \in 1..Len(processed) :
       processed[t] # << >> /\ Len(NameEls(TraceEls(outfile[1])[t])) = 1
  /\ \E t \in 1..Len(processed) :
       /\ processed[t] = << >>
       /\ Len(NameEls(TraceEls(outfile[1])[t])) = 1
       /\ \E j \in 1..Len(traces[<< >>]) : ConceptNameAbsent(traces[<< >>][j])
====
